---- MODULE Spec2Model ----
(***************************************************************************)
(* slurmacc.py: usage accounting reports for a cluster.  The model covers  *)
(* the cpu_time metric: main() dispatching to process_single or            *)
(* process_multiple, get_usage_data, get_database_data, combine, the       *)
(* monthly merge and output_data.  Tables are sequences of rows; a pandas  *)
(* missing value is the value NaN.  Used is a fixed-point number held in   *)
(* units of 1/Scale, so that astype(int) has something to truncate.        *)
(***************************************************************************)
EXTENDS Integers, Sequences, FiniteSets, TLC

\* Longest requested range, in calendar months after the first one.
MaxMonths == 2
\* Resolution of the Used column: a value u stands for u/Scale.
Scale == 2

NaN == "NaN"

(***************************************************************************)
(* Dates <<y, m, d>> and monthly periods <<y, m>> (pandas Timestamp and    *)
(* Period with freq='M').                                                  *)
(***************************************************************************)
DateLE(a, b) ==
    \/ a[1] < b[1]
    \/ a[1] = b[1] /\ a[2] < b[2]
    \/ a[1] = b[1] /\ a[2] = b[2] /\ a[3] <= b[3]

to_period(d) == <<d[1], d[2]>>

start_time(p) == <<p[1], p[2], 1>>

PeriodPlusOne(p) == IF p[2] = 12 THEN <<p[1] + 1, 1>> ELSE <<p[1], p[2] + 1>>

\* strftime("%Y-%m") of a period: the column label of a month.
MonthLabel(p) == <<"%Y-%m", p[1], p[2]>>

\* strftime("%Y-%m-%d") of a date.
DateText(d) == <<"%Y-%m-%d", d[1], d[2], d[3]>>

\* Months counted from year 0, and back.
MonthIndex(p) == 12 * p[1] + (p[2] - 1)

PeriodOfIndex(n) == <<n \div 12, (n % 12) + 1>>

FirstPeriod == <<2022, 11>>

Periods == {PeriodOfIndex(MonthIndex(FirstPeriod) + k) : k \in 0..MaxMonths}

Dates == {<<p[1], p[2], d>> : p \in Periods, d \in {1, 15}}

(***************************************************************************)
(* Strings in Python's order (upper case before lower case); index keys    *)
(* are tuples of strings compared lexicographically.                       *)
(***************************************************************************)
StrOrder == <<"Alice", "Bob", "D1", "F1", "Unknown Department",
              "Unknown Faculty", "X", "alice", "bob">>

Rank(s) == CHOOSE i \in 1..Len(StrOrder) : StrOrder[i] = s

KeyLess(k1, k2) ==
    \E i \in 1..Len(k1) :
        /\ \A j \in 1..(i - 1) : k1[j] = k2[j]
        /\ Rank(k1[i]) < Rank(k2[i])

RECURSIVE SumSeq(_)
SumSeq(s) == IF s = <<>> THEN 0 ELSE Head(s) + SumSeq(Tail(s))

UsedOf(rows) == [i \in 1..Len(rows) |-> rows[i].Used]

Range(s) == {s[i] : i \in 1..Len(s)}

\* The rows of a set, as the sequence in increasing key order (keys unique).
RECURSIVE SortByKey(_)
SortByKey(S) ==
    IF S = {} THEN <<>>
    ELSE LET m == CHOOSE x \in S : \A y \in S \ {x} : KeyLess(x.key, y.key)
         IN  <<m>> \o SortByKey(S \ {m})

(***************************************************************************)
(* The external collaborators' answers.  sreport (AccountUtilizationByUser)*)
(* gives one row per login that has usage (its rows without a login, which *)
(* line 219 filters out, are left out); the directory gives, for each      *)
(* login asked about, any set of its affiliations.                         *)
(***************************************************************************)
Logins == <<"alice", "bob">>

NameOf(l) == IF l = "alice" THEN "Alice" ELSE "Bob"

UsedValues == {1, Scale}

RECURSIVE UsageRowsFrom(_)
UsageRowsFrom(ls) ==
    IF ls = <<>> THEN {<<>>}
    ELSE LET rest == UsageRowsFrom(Tail(ls))
         IN  rest \cup
             {<<[Login |-> Head(ls), Account |-> "X", Used |-> u]>> \o r :
                 u \in UsedValues, r \in rest}

\* Every table sreport may print for a period, the empty one included.
UsageInputs == UsageRowsFrom(Logins)

\* if usage_data.empty, taken never to hold.
UsageEmptyNever(usage) == FALSE

\* if usage_data.empty: line 225.
UsageEmpty(usage) == usage = <<>>

\* An earlier affiliation, a later one whose department is not known, and
\* one with the first department again that starts on the same later day.
Affiliations ==
    { [Department |-> "D1", Faculty |-> "F1", StartDate |-> 1],
      [Department |-> NaN,  Faculty |-> NaN,  StartDate |-> 2],
      [Department |-> "D1", Faculty |-> "F1", StartDate |-> 2] }

\* The day the affiliations of a login are counted from.
FirstDay(l) == IF l = "alice" THEN 0 ELSE 2

DirectoryRows(logins) ==
    { [Login |-> l, Name |-> NameOf(l), Department |-> a.Department,
       Faculty |-> a.Faculty, StartDate |-> FirstDay(l) + a.StartDate] :
          l \in logins, a \in Affiliations }

\* Every answer to the query of line 253: rows of the logins of the usage.
QueryResults(usage) == SUBSET DirectoryRows({usage[i].Login : i \in 1..Len(usage)})

(***************************************************************************)
(* get_database_data, lines 284-300.                                       *)
(***************************************************************************)
\* sort_values(by='StartDate', ascending=True): the earliest affiliation first.
RECURSIVE SortByStartDateAscending(_)
SortByStartDateAscending(S) ==
    IF S = {} THEN {<<>>}
    ELSE UNION { {<<x>> \o t : t \in SortByStartDateAscending(S \ {x})} :
                 x \in {x \in S : \A y \in S : x.StartDate <= y.StartDate} }

\* sort_values(by='StartDate', ascending=False): every order the sort may
\* leave rows of equal StartDate in.
RECURSIVE SortByStartDate(_)
SortByStartDate(S) ==
    IF S = {} THEN {<<>>}
    ELSE UNION { {<<x>> \o t : t \in SortByStartDate(S \ {x})} :
                 x \in {x \in S : \A y \in S : y.StartDate <= x.StartDate} }

\* drop_duplicates(subset=['Login']): the first row of each login is kept.
RECURSIVE DropDuplicates(_, _)
DropDuplicates(s, seen) ==
    IF s = <<>> THEN <<>>
    ELSE IF Head(s).Login \in seen THEN DropDuplicates(Tail(s), seen)
    ELSE <<Head(s)>> \o DropDuplicates(Tail(s), seen \cup {Head(s).Login})

Fillna(v, with) == IF v = NaN THEN with ELSE v

\* drop(["StartDate"]) and the two fillna calls, on one row.
ResolvedRow(r) ==
    [Login |-> r.Login, Name |-> r.Name,
     Department |-> Fillna(r.Department, "Unknown Department"),
     Faculty |-> Fillna(r.Faculty, "Unknown Faculty")]

\* user_data as returned, from the sorted query result.
ResolveAffiliations(sorted) ==
    LET d == DropDuplicates(sorted, {})
    IN  [i \in 1..Len(d) |-> ResolvedRow(d[i])]

(***************************************************************************)
(* combine, lines 303-345.                                                 *)
(***************************************************************************)
\* usage.set_index("Login").join(user.set_index("Login")): a left join.
JoinLeft(usage, user) ==
    [i \in 1..Len(usage) |->
        LET u == usage[i]
            m == {r \in Range(user) : r.Login = u.Login}
        IN  IF m = {}
            THEN [Login |-> u.Login, Account |-> u.Account, Used |-> u.Used,
                  Name |-> NaN, Department |-> NaN, Faculty |-> NaN]
            ELSE LET r == CHOOSE r \in m : TRUE
                 IN  [Login |-> u.Login, Account |-> u.Account, Used |-> u.Used,
                      Name |-> r.Name, Department |-> r.Department,
                      Faculty |-> r.Faculty]]

\* data["User"] = data["Login"]; data.drop(["Login"]).
RenameLogin(combined) ==
    [i \in 1..Len(combined) |->
        [User |-> combined[i].Login, Account |-> combined[i].Account,
         Used |-> combined[i].Used, Name |-> combined[i].Name,
         Department |-> combined[i].Department, Faculty |-> combined[i].Faculty]]

Grouping(options) ==
    <<"Account">>
    \o (IF options.faculty THEN <<"Faculty">> ELSE <<>>)
    \o (IF options.department THEN <<"Department">> ELSE <<>>)
    \o (IF options.user THEN <<"User", "Name">> ELSE <<>>)

MonthlyGrouping == <<"Account", "User", "Name", "Faculty", "Department">>

KeyOf(row, grouping) == [j \in 1..Len(grouping) |-> row[grouping[j]]]

\* data.groupby(grouping)["Used"].sum(): rows with a missing value in a
\* grouping column are left out (dropna=True), groups come in key order.
GroupBySum(data, grouping) ==
    LET kept == {i \in 1..Len(data) :
                    \A j \in 1..Len(grouping) : data[i][grouping[j]] # NaN}
        keys == {KeyOf(data[i], grouping) : i \in kept}
        sum(k) == SumSeq([i \in 1..Len(data) |->
                     IF i \in kept /\ KeyOf(data[i], grouping) = k
                     THEN data[i].Used ELSE 0])
    IN  SortByKey({[key |-> k, Used |-> sum(k)] : k \in keys})

\* data.set_index("User"): the table as it is, one row per usage row.
SetIndexUser(data) ==
    [i \in 1..Len(data) |->
        [key |-> <<data[i].User>>, Used |-> data[i].Used,
         rest |-> <<data[i].Account, data[i].Name,
                    data[i].Faculty, data[i].Department>>]]

RECURSIVE InsertAscending(_, _, _, _)
InsertAscending(s, r, by, tie) ==
    IF s = <<>> THEN <<r>>
    ELSE IF Head(s)[by] > r[by] \/ (tie /\ Head(s)[by] = r[by])
         THEN <<r>> \o s
         ELSE <<Head(s)>> \o InsertAscending(Tail(s), r, by, tie)

RECURSIVE SortValuesAscending(_, _, _)
SortValuesAscending(rows, by, tie) ==
    IF rows = <<>> THEN <<>>
    ELSE InsertAscending(SortValuesAscending(Tail(rows), by, tie), Head(rows), by, tie)

RECURSIVE InsertDescending(_, _, _, _)
InsertDescending(s, r, by, tie) ==
    IF s = <<>> THEN <<r>>
    ELSE IF Head(s)[by] < r[by] \/ (tie /\ Head(s)[by] = r[by])
         THEN <<r>> \o s
         ELSE <<Head(s)>> \o InsertDescending(Tail(s), r, by, tie)

RECURSIVE SortDescending(_, _, _)
SortDescending(rows, by, tie) ==
    IF rows = <<>> THEN <<>>
    ELSE InsertDescending(SortDescending(Tail(rows), by, tie), Head(rows), by, tie)

\* sort_values(ascending=False) on column `by`; tie picks the order the
\* (unstable) sort leaves equal values in.
SortValues(rows, by, tie) == SortDescending(rows, by, tie)

\* The table combine returns.
CombineTable(combined, options, tie) ==
    LET data == RenameLogin(combined)
    IN  IF options.faculty \/ options.department
        THEN LET g == GroupBySum(data, Grouping(options))
             IN  IF options.sort THEN SortValues(g, "Used", tie) ELSE g
        ELSE IF options.monthly
        THEN GroupBySum(data, MonthlyGrouping)
        ELSE LET t == SetIndexUser(data)
             IN  IF options.sort THEN SortValues(t, "Used", tie) ELSE t

(***************************************************************************)
(* process_multiple, lines 398-435: the loop test and the merge.           *)
(***************************************************************************)
\* current_end < end_month.start_time: leaves out the last month.
LoopGuardStrict(current_start, current_end, end_month) ==
    /\ DateLE(current_end, start_time(end_month))
    /\ current_end # start_time(end_month)

\* current_start <= end_month.start_time: takes the end date's month too.
LoopGuardOnStart(current_start, current_end, end_month) ==
    DateLE(current_start, start_time(end_month))

\* while current_end <= end_month.start_time
LoopGuard(current_start, current_end, end_month) ==
    DateLE(current_end, start_time(end_month))

\* A cell of a float column: a value, or missing.
Cell(v) == <<v>>

Missing == <<>>

\* pd.DataFrame({current_month.strftime("%Y-%m"): temp_res}, index=temp_res.index)
MonthFrame(label, table) ==
    [columns |-> <<label>>,
     rows |-> [i \in 1..Len(table) |->
                  [key |-> table[i].key, vals |-> <<Cell(table[i].Used)>>]]]

FrameKeys(f) == {f.rows[i].key : i \in 1..Len(f.rows)}

\* The cells of key k in frame f: missing ones where f has no such row.
CellsOf(f, k) ==
    IF k \in FrameKeys(f)
    THEN (CHOOSE r \in Range(f.rows) : r.key = k).vals
    ELSE [j \in 1..Len(f.columns) |-> Missing]

JoinOn(a, b, keys) ==
    [columns |-> a.columns \o b.columns,
     rows |-> SortByKey({[key |-> k, vals |-> CellsOf(a, k) \o CellsOf(b, k)] :
                            k \in keys})]

\* res.join(ser, how='inner'): only the keys both frames have.
JoinInner(a, b) == JoinOn(a, b, FrameKeys(a) \cap FrameKeys(b))

\* res.join(ser, how='outer'): the union of the two indexes, in key order.
JoinOuter(a, b) == JoinOn(a, b, FrameKeys(a) \cup FrameKeys(b))

\* res = results.pop(0); for ser in results: res = res.join(ser, how='outer')
RECURSIVE JoinAll(_, _)
JoinAll(res, rest) ==
    IF rest = <<>> THEN res ELSE JoinAll(JoinOuter(res, Head(rest)), Tail(rest))

\* fillna(0) of a cell.
FillnaZero(c) == IF c = Missing THEN Cell(0) ELSE c

\* astype(int) of a cell without a missing value: towards zero, the value
\* being non-negative and held in units of 1/Scale.
AstypeInt(c) == c[1] \div Scale

\* res.fillna(0).astype(int)
FillnaAstypeInt(f) ==
    [columns |-> f.columns,
     rows |-> [i \in 1..Len(f.rows) |->
                  [key |-> f.rows[i].key,
                   vals |-> [j \in 1..Len(f.rows[i].vals) |->
                                AstypeInt(FillnaZero(f.rows[i].vals[j]))]]]]

\* A row sum that leaves the first month column out.
RowTotalSkipFirst(vals) == SumSeq(Tail(vals))

\* res.sum(axis=1, numeric_only=True), for one row.
RowTotal(vals) == SumSeq(vals)

\* res["Total"] = res.sum(axis=1, numeric_only=True)
WithTotal(f) ==
    [columns |-> f.columns,
     rows |-> [i \in 1..Len(f.rows) |->
                  [key |-> f.rows[i].key, vals |-> f.rows[i].vals,
                   Total |-> RowTotal(f.rows[i].vals)]]]

\* Lines 424-435 on a non-empty list of month frames.
MergeMonths(results, options, tie) ==
    LET res == WithTotal(FillnaAstypeInt(JoinAll(Head(results), Tail(results))))
    IN  IF options.sort
        THEN [columns |-> res.columns, rows |-> SortValues(res.rows, "Total", tie)]
        ELSE res

\* The file name of lines 357-370, as the list of its parts.
CsvName(options) ==
    <<"usage", "_cpu_", options.time_unit>>
    \o (IF options.monthly THEN <<"_monthly">> ELSE <<>>)
    \o <<DateText(options.start_date), DateText(options.end_date), ".csv">>

(***************************************************************************)
(* process_single, lines 384-395, as the set of tables it can return for   *)
(* given flags and a given answer of sreport (the dates of the options     *)
(* reach only the two collaborators).                                      *)
(***************************************************************************)
Flags == [monthly : BOOLEAN, faculty : BOOLEAN, department : BOOLEAN,
          user : BOOLEAN, sort : BOOLEAN]

FlagsOf(options) ==
    [monthly |-> options.monthly, faculty |-> options.faculty,
     department |-> options.department, user |-> options.user,
     sort |-> options.sort]

Ties(flags) == IF flags.sort THEN BOOLEAN ELSE {FALSE}

ProcessSingleTables ==
    [f \in Flags, usage \in UsageInputs |->
        UNION { UNION { {CombineTable(JoinLeft(usage, ResolveAffiliations(sorted)), f, tie) :
                            tie \in Ties(f)} :
                        sorted \in SortByStartDate(q)} :
                q \in QueryResults(usage)}]

(***************************************************************************)
(* The program: main() after parse_args and parse_configs.                 *)
(***************************************************************************)
VARIABLES
    pc,             \* where main() is
    argv,           \* -s and -e as given on the command line
    options,        \* the options object of parse_args
    end_month,      \* process_multiple's locals
    current_month,
    current_start,
    current_end,
    results,        \* the month frames gathered so far
    calls,          \* the sreport runs so far: period asked, rows printed
    usage_data,     \* process_single's locals
    query_result,   \* what read_sql returned to get_database_data
    user_data,
    combined,       \* the joined frame of line 305
    result,         \* the table handed to output_data
    csv_name        \* the file written by output_data

vars == <<pc, argv, options, end_month, current_month, current_start,
          current_end, results, calls, usage_data, query_result, user_data,
          combined, result, csv_name>>

NoTable == [columns |-> <<>>, rows |-> <<>>]

NoPeriod == <<0, 0>>

\* parse_args, lines 104-112: the start date is not after the end date.
Ranges == {a \in [start_date : Dates, end_date : Dates] :
              DateLE(a.start_date, a.end_date)}

\* The range from the first day of the first month to that of the last.
WidestRange ==
    {a \in Ranges :
        /\ a.start_date = start_time(FirstPeriod)
        /\ a.end_date = start_time(PeriodOfIndex(MonthIndex(FirstPeriod) + MaxMonths))}

\* Reports by faculty in key order, monthly or not.
FacultyFlags ==
    {f \in Flags : f.faculty /\ ~f.department /\ ~f.user /\ ~f.sort}

\* The state parse_args leaves, for the ranges and flags given.
InitWith(ranges, flags) ==
    /\ pc = "main"
    /\ argv \in ranges
    /\ \E f \in flags :
          options = [start_date |-> argv.start_date, end_date |-> argv.end_date,
                     monthly |-> f.monthly, faculty |-> f.faculty,
                     department |-> f.department, user |-> f.user,
                     sort |-> f.sort, time_unit |-> "m"]
    /\ end_month = NoPeriod
    /\ current_month = NoPeriod
    /\ current_start = start_time(NoPeriod)
    /\ current_end = start_time(NoPeriod)
    /\ results = <<>>
    /\ calls = <<>>
    /\ usage_data = <<>>
    /\ query_result = {}
    /\ user_data = <<>>
    /\ combined = <<>>
    /\ result = NoTable
    /\ csv_name = <<>>

SreportRun(opts, usage) ==
    [start |-> opts.start_date, end |-> opts.end_date, rows |-> Len(usage)]

\* main, lines 448-449: a single period report.
MainSingle ==
    /\ pc = "main"
    /\ ~options.monthly
    /\ pc' = "usage"
    /\ UNCHANGED <<argv, options, end_month, current_month, current_start,
                   current_end, results, calls, usage_data, query_result,
                   user_data, combined, result, csv_name>>

\* get_usage_data called by process_single: exit(1) on an empty table.
GetUsageData ==
    /\ pc = "usage"
    /\ \E usage \in UsageInputs :
          /\ calls' = Append(calls, SreportRun(options, usage))
          /\ IF UsageEmpty(usage)
             THEN pc' = "exit" /\ UNCHANGED usage_data
             ELSE pc' = "database" /\ usage_data' = usage
    /\ UNCHANGED <<argv, options, end_month, current_month, current_start,
                   current_end, results, query_result, user_data, combined,
                   result, csv_name>>

\* get_database_data called by process_single.
GetDatabaseData ==
    /\ pc = "database"
    /\ \E q \in QueryResults(usage_data) :
          /\ query_result' = q
          /\ \E sorted \in SortByStartDate(q) :
                user_data' = ResolveAffiliations(sorted)
    /\ pc' = "combine"
    /\ UNCHANGED <<argv, options, end_month, current_month, current_start,
                   current_end, results, calls, usage_data, combined, result,
                   csv_name>>

\* combine called by process_single, and the return to main.
Combine ==
    /\ pc = "combine"
    /\ combined' = JoinLeft(usage_data, user_data)
    /\ \E tie \in Ties(options) :
          result' = [columns |-> <<"Used">>,
                     rows |-> CombineTable(combined', options, tie)]
    /\ pc' = "output"
    /\ UNCHANGED <<argv, options, end_month, current_month, current_start,
                   current_end, results, calls, usage_data, query_result,
                   user_data, csv_name>>

\* main, line 447, and process_multiple, lines 401-408.
MainMonthly ==
    /\ pc = "main"
    /\ options.monthly
    /\ end_month' = to_period(options.end_date)
    /\ current_month' = to_period(options.start_date)
    /\ current_start' = start_time(current_month')
    /\ current_end' = start_time(PeriodPlusOne(current_month'))
    /\ results' = <<>>
    /\ pc' = "loop"
    /\ UNCHANGED <<argv, options, calls, usage_data, query_result, user_data,
                   combined, result, csv_name>>

\* One turn of the loop, lines 410-420, with the whole of process_single:
\* its locals are gone when it returns.
LoopBody ==
    /\ pc = "loop"
    /\ LoopGuard(current_start, current_end, end_month)
    /\ options' = [options EXCEPT !.start_date = current_start,
                                  !.end_date = current_end]
    /\ \E usage \in UsageInputs :
          /\ calls' = Append(calls, SreportRun(options', usage))
          /\ IF UsageEmpty(usage)
             THEN /\ pc' = "exit"
                  /\ UNCHANGED <<results, current_month, current_start, current_end>>
             ELSE /\ \E temp_res \in ProcessSingleTables[FlagsOf(options'), usage] :
                        results' = Append(results,
                            MonthFrame(MonthLabel(current_month), temp_res))
                  /\ current_month' = PeriodPlusOne(current_month)
                  /\ current_start' = start_time(current_month')
                  /\ current_end' = start_time(PeriodPlusOne(current_month'))
                  /\ pc' = "loop"
    /\ UNCHANGED <<argv, end_month, usage_data, query_result, user_data,
                   combined, result, csv_name>>

\* Lines 422-435 once the loop is left: results.pop(0) raises IndexError
\* on an empty list, and nothing catches it.
Merge ==
    /\ pc = "loop"
    /\ ~LoopGuard(current_start, current_end, end_month)
    /\ IF results = <<>>
       THEN pc' = "error" /\ UNCHANGED result
       ELSE /\ \E tie \in Ties(options) : result' = MergeMonths(results, options, tie)
            /\ pc' = "output"
    /\ UNCHANGED <<argv, options, end_month, current_month, current_start,
                   current_end, results, calls, usage_data, query_result,
                   user_data, combined, csv_name>>

\* output_data, lines 355-374 (the script is run with -x).
OutputData ==
    /\ pc = "output"
    /\ csv_name' = CsvName(options)
    /\ pc' = "done"
    /\ UNCHANGED <<argv, options, end_month, current_month, current_start,
                   current_end, results, calls, usage_data, query_result,
                   user_data, combined, result>>

Next ==
    \/ MainSingle
    \/ GetUsageData
    \/ GetDatabaseData
    \/ Combine
    \/ MainMonthly
    \/ LoopBody
    \/ Merge
    \/ OutputData

\* The reports by faculty: the monthly ones for every range, the single
\* period ones for the widest range.
Init ==
    \/ InitWith(Ranges, {f \in FacultyFlags : f.monthly})
    \/ InitWith(WidestRange, {f \in FacultyFlags : ~f.monthly})

Spec == Init /\ [][Next]_vars

\* The widest range: every single period report, and the monthly reports
\* by user and by faculty.
TableFlags == {f \in Flags : f.monthly => ~f.department /\ ~f.user}

InitTables == InitWith(WidestRange, TableFlags)

SpecTables == InitTables /\ [][Next]_vars

(***************************************************************************)
(* Properties.                                                             *)
(***************************************************************************)
Finished == pc \in {"output", "done"}

\* The calendar months from S's month up to and not including E's month,
\* each as [first day of the month, first day of the next month).
ExpectedMonths(S, E) ==
    LET first == MonthIndex(to_period(S))
        n == MonthIndex(to_period(E)) - first
    IN  [i \in 1..n |->
            [start |-> start_time(PeriodOfIndex(first + i - 1)),
             end |-> start_time(PeriodOfIndex(first + i))]]

CallPeriods == [i \in 1..Len(calls) |-> [start |-> calls[i].start, end |-> calls[i].end]]

\* C1: a monthly report runs the single period pipeline once per calendar
\* month, in increasing order, from the start date's month up to and not
\* including the end date's month: what has run so far is always a prefix
\* of that list of months, and all of it once the loop is left.
C1_MonthlyPeriods ==
    options.monthly =>
        LET expected == ExpectedMonths(argv.start_date, argv.end_date)
        IN  /\ Len(calls) <= Len(expected)
            /\ CallPeriods = SubSeq(expected, 1, Len(calls))
            /\ pc \in {"output", "done", "error"} => CallPeriods = expected

C1_Witness ==
    /\ pc = "done"
    /\ options.monthly
    /\ Len(calls) = MaxMonths
    /\ argv.start_date[3] # 1
    /\ argv.end_date[3] # 1
    /\ argv.start_date[1] < argv.end_date[1]

\* C4: in a monthly report, a sub-period for which sreport prints no row is
\* the last one asked for: the program has exited there, no table was merged
\* and nothing reached output_data.
C4_EmptyMonthAborts ==
    options.monthly =>
        \A i \in 1..Len(calls) :
            calls[i].rows = 0 =>
                /\ i = Len(calls)
                /\ pc = "exit"
                /\ Len(results) = i - 1
                /\ result = NoTable
                /\ csv_name = <<>>

C4_Witness ==
    /\ pc = "exit"
    /\ options.monthly
    /\ Len(calls) = 1
    /\ calls[1].rows = 0
    /\ Len(ExpectedMonths(argv.start_date, argv.end_date)) > 1

ZeroMonths == to_period(argv.start_date) = to_period(argv.end_date)

\* C5, as stated: a monthly report over a range with no complete month
\* returns an empty table.
C5_ReturnsEmptyTable ==
    (options.monthly /\ ZeroMonths /\ pc \notin {"main", "loop"}) =>
        (Finished /\ result.rows = <<>>)

\* C5, amended: a monthly report over a range with no complete month runs
\* no sub-period and returns no table: the merge fails on the empty list of
\* month frames, and nothing reaches output_data; the merge fails in no
\* other case.
C5_NoTableForZeroMonths ==
    /\ (options.monthly /\ ZeroMonths) =>
          /\ pc \in {"main", "loop", "error"}
          /\ calls = <<>>
          /\ result = NoTable
          /\ csv_name = <<>>
    /\ pc = "error" => (options.monthly /\ ZeroMonths)

C5_Witness ==
    /\ pc = "error"
    /\ options.monthly
    /\ ZeroMonths
    /\ argv.start_date # argv.end_date

\* C10: after a monthly report, the options still hold the requested range
\* and the csv file is named after it.
C10_OptionsKeepRange ==
    (pc = "done" /\ options.monthly) =>
        /\ options.start_date = argv.start_date
        /\ options.end_date = argv.end_date
        /\ csv_name = CsvName([options EXCEPT !.start_date = argv.start_date,
                                              !.end_date = argv.end_date])

UserLogins == {user_data[i].Login : i \in 1..Len(user_data)}

\* C2, as stated: a usage row whose login the directory has no row for is
\* joined to "Unknown Department" and "Unknown Faculty", no joined row lacks
\* a department or a faculty, and every usage row is in the table returned.
C2_UnknownForUnmatched ==
    (Finished /\ ~options.monthly) =>
        /\ \A i \in 1..Len(usage_data) :
              usage_data[i].Login \notin UserLogins =>
                  /\ combined[i].Department = "Unknown Department"
                  /\ combined[i].Faculty = "Unknown Faculty"
        /\ \A i \in 1..Len(combined) :
              combined[i].Department # NaN /\ combined[i].Faculty # NaN
        /\ (options.faculty \/ options.department) =>
              \A i \in 1..Len(combined) :
                  \E r \in Range(result.rows) :
                      r.key = KeyOf(RenameLogin(combined)[i], Grouping(options))

\* C3, as stated: the Used of the groups combine returns add up to the Used
\* of the usage rows it was given.
C3_UsageConserved ==
    (Finished /\ ~options.monthly) =>
        SumSeq(UsedOf(result.rows)) = SumSeq(UsedOf(usage_data))

MonthCount == Len(results)

\* The value of key k in the table of month j, in units of 1/Scale.
MonthValue(j, k) ==
    (CHOOSE r \in Range(results[j].rows) : r.key = k).vals[1][1]

InMonth(j, k) == k \in FrameKeys(results[j])

MergedKeys == {result.rows[i].key : i \in 1..Len(result.rows)}

MergeShape ==
    /\ result.columns = [j \in 1..MonthCount |-> results[j].columns[1]]
    /\ MergedKeys = UNION {FrameKeys(results[j]) : j \in 1..MonthCount}
    /\ Cardinality(MergedKeys) = Len(result.rows)
    /\ \A i \in 1..Len(result.rows) : Len(result.rows[i].vals) = MonthCount

\* C6, as stated: the merged table has the union of the months' keys, and
\* each cell holds the month's summed value, or 0 where the key did not
\* occur in the month.
C6_CellsHoldMonthValue ==
    (Finished /\ options.monthly) =>
        /\ MergeShape
        /\ \A i \in 1..Len(result.rows) : \A j \in 1..MonthCount :
              LET k == result.rows[i].key
              IN  result.rows[i].vals[j] * Scale =
                     (IF InMonth(j, k) THEN MonthValue(j, k) ELSE 0)

\* What astype(int) leaves of the month's value: its whole part.
WholePart(j, k) == IF InMonth(j, k) THEN MonthValue(j, k) \div Scale ELSE 0

\* C6, amended: the merged table has the union of the months' keys, and
\* each cell holds the whole part of the month's summed value, or 0 where
\* the key did not occur in the month.
C6_CellsHoldWholePart ==
    (Finished /\ options.monthly) =>
        /\ MergeShape
        /\ \A i \in 1..Len(result.rows) : \A j \in 1..MonthCount :
              result.rows[i].vals[j] = WholePart(j, result.rows[i].key)

C6_Witness ==
    /\ pc = "done"
    /\ options.monthly
    /\ \E i \in 1..Len(result.rows) : \E j, h \in 1..MonthCount :
          LET k == result.rows[i].key
          IN  /\ ~InMonth(j, k)
              /\ InMonth(h, k)
              /\ MonthValue(h, k) % Scale # 0
              /\ MonthValue(h, k) > Scale

\* C7: in the table of a monthly report, Total is the sum of the row's
\* month columns, the whole parts of the months' values, and of nothing else.
C7_TotalIsRowSum ==
    (Finished /\ options.monthly) =>
        \A i \in 1..Len(result.rows) :
            LET row == result.rows[i]
            IN  /\ row.Total = SumSeq(row.vals)
                /\ row.Total = SumSeq([j \in 1..MonthCount |-> WholePart(j, row.key)])

C7_Witness ==
    /\ pc = "done"
    /\ options.monthly
    /\ \E i \in 1..Len(result.rows) :
          LET row == result.rows[i]
          IN  /\ \A j \in 1..MonthCount : InMonth(j, row.key) /\ row.vals[j] > 0
              /\ MonthCount > 1
              /\ row.Total * Scale <
                    SumSeq([j \in 1..MonthCount |-> MonthValue(j, row.key)])

Candidates(l) == {c \in query_result : c.Login = l}

Latest(l) == {c \in Candidates(l) : \A d \in Candidates(l) : d.StartDate <= c.StartDate}

\* C8: get_database_data returns one row for each login the directory has
\* candidate rows for, made from a candidate with the latest start date
\* (a missing department or faculty replaced by its sentinel), and no row
\* for any other login.
C8_LatestAffiliation ==
    (pc \in {"combine", "output", "done"} /\ ~options.monthly) =>
        /\ UserLogins = {c.Login : c \in query_result}
        /\ \A l \in UserLogins :
              /\ Cardinality({i \in 1..Len(user_data) : user_data[i].Login = l}) = 1
              /\ \E c \in Latest(l) : \E i \in 1..Len(user_data) :
                    /\ user_data[i].Login = l
                    /\ user_data[i].Name = c.Name
                    /\ user_data[i].Department =
                          (IF c.Department = NaN THEN "Unknown Department"
                           ELSE c.Department)
                    /\ user_data[i].Faculty =
                          (IF c.Faculty = NaN THEN "Unknown Faculty"
                           ELSE c.Faculty)

C8_Witness ==
    /\ pc = "combine"
    /\ \E l \in UserLogins : Candidates(l) # Latest(l)
    /\ Cardinality(UserLogins) > 1

Count(rows, r) == Cardinality({i \in 1..Len(rows) : rows[i] = r})

\* The same rows, each as many times, in any order.
SameRows(a, b) ==
    /\ Len(a) = Len(b)
    /\ \A r \in Range(a) \cup Range(b) : Count(a, r) = Count(b, r)

NonIncreasing(rows, by) ==
    \A i \in 1..(Len(rows) - 1) : rows[i][by] >= rows[i + 1][by]

Unsorted(options_) == [options_ EXCEPT !.sort = FALSE]

\* C9: with the sort flag, the rows of the table returned are in
\* non-increasing order of Used (single period) or Total (monthly), and are
\* the rows of the table made without the flag, in another order.
C9_SortedPermutation ==
    (Finished /\ options.sort) =>
        IF options.monthly
        THEN /\ NonIncreasing(result.rows, "Total")
             /\ SameRows(result.rows, MergeMonths(results, Unsorted(options), FALSE).rows)
        ELSE /\ NonIncreasing(result.rows, "Used")
             /\ SameRows(result.rows, CombineTable(combined, Unsorted(options), FALSE))

C9_Witness ==
    /\ pc = "done"
    /\ options.sort
    /\ options.monthly
    /\ options.faculty
    /\ Len(result.rows) > 1
    /\ result.rows[1].Total > result.rows[2].Total
    /\ result.rows # MergeMonths(results, Unsorted(options), FALSE).rows

====
